---- MODULE Spec2Model ----
(***************************************************************************)
(* rust-sniffer: the layered header decoders (Ethernet -> IPv4 / IPv6),    *)
(* the control-field model they fill, and the two capture loops of main.rs *)
(* that feed captured frames to them.                                      *)
(*                                                                         *)
(* A byte buffer (&[u8]) is a sequence of naturals below 256; Rust's       *)
(* 0-based index i is the sequence's element i + 1.  Option<T> is a        *)
(* sequence of length at most one (<<>> is None, <<v>> is Some(v)).        *)
(*                                                                         *)
(* The loops' cap.stats() polling only fills last_stats and writes log     *)
(* lines; no branch reads it, and it is left out of the state.             *)
(***************************************************************************)
EXTENDS Integers, Sequences, FiniteSets, TLC

(***************************************************************************)
(* Bounds of the model.                                                    *)
(***************************************************************************)
\* The capture loops hand at most this many packets to the decoders.
MaxPackets == 4
\* Frames carry up to this many bytes after the longest header chain.
MaxPad == 1

(***************************************************************************)
(* Bytes and formatting.                                                   *)
(***************************************************************************)
\* data[i]: the byte at 0-based index i.  An index at or past the length
\* panics in Rust; the handlers record that in `oob`, and the value used
\* for the rest of the evaluation is 0.
Byte(d, i) == IF i < Len(d) THEN d[i + 1] ELSE 0

\* ((d[i] as u16) << 8) | (d[i+1] as u16)
U16(d, i) == Byte(d, i) * 256 + Byte(d, i + 1)

HexDigits == <<"0", "1", "2", "3", "4", "5", "6", "7",
               "8", "9", "a", "b", "c", "d", "e", "f">>

RECURSIVE LowerHex(_)
\* {:x}: lowercase hexadecimal without leading zeros.
LowerHex(n) ==
    IF n < 16 THEN HexDigits[n + 1]
    ELSE LowerHex(n \div 16) \o HexDigits[(n % 16) + 1]

RECURSIVE ZeroPad(_, _)
\* The 0-flag of a format width: zeros on the left up to width w.
ZeroPad(s, w) == IF Len(s) >= w THEN s ELSE ZeroPad("0" \o s, w)

\* {:0wx}
Hex(n, w) == ZeroPad(LowerHex(n), w)

\* to_string() of an unsigned integer.
Dec(n) == ToString(n)

(***************************************************************************)
(* frame_control.rs: the control-field model.                              *)
(***************************************************************************)
ControlField(n, v, desc) == [name |-> n, value |-> v, description |-> desc]

FrameControlInfo(tag, fields) == [protocol_type |-> tag, control_fields |-> fields]

\* The names of a list of control fields, in order.
Names(fields) == [k \in 1..Len(fields) |-> fields[k].name]

(***************************************************************************)
(* Results of the decoders' parse: a tag and, on "Ok", the borrowed view.  *)
(***************************************************************************)
Ok(d) == [tag |-> "Ok", data |-> d]
Err(e) == [tag |-> e, data |-> <<>>]

(***************************************************************************)
(* ipv4.rs                                                                 *)
(***************************************************************************)
\* The minimum IPv4 header: parse's length check.
IPv4MinLen == 20

\* parse with the IHL check placed before the version check.
IPv4Packet_parse_IhlFirst(d) ==
    IF Len(d) < IPv4MinLen THEN Err("TooShort")
    ELSE IF Byte(d, 0) % 16 < 5 THEN Err("InvalidHeaderLength")
    ELSE IF (Byte(d, 0) \div 16) % 16 # 4 THEN Err("InvalidVersion")
    ELSE Ok(d)

\* parse with an off-by-one length check (len < 19).
IPv4Packet_parse_OffByOne(d) ==
    IF Len(d) < IPv4MinLen - 1 THEN Err("TooShort")
    ELSE IF (Byte(d, 0) \div 16) % 16 # 4 THEN Err("InvalidVersion")
    ELSE IF Byte(d, 0) % 16 < 5 THEN Err("InvalidHeaderLength")
    ELSE Ok(d)

\* parse hardened to reject a declared header length beyond the buffer.
IPv4Packet_parse_Hardened(d) ==
    IF Len(d) < IPv4MinLen THEN Err("TooShort")
    ELSE IF (Byte(d, 0) \div 16) % 16 # 4 THEN Err("InvalidVersion")
    ELSE IF Byte(d, 0) % 16 < 5 THEN Err("InvalidHeaderLength")
    ELSE IF (Byte(d, 0) % 16) * 4 > Len(d) THEN Err("InvalidHeaderLength")
    ELSE Ok(d)

IPv4Packet_parse(d) ==
    IF Len(d) < IPv4MinLen THEN Err("TooShort")
    ELSE IF (Byte(d, 0) \div 16) % 16 # 4 THEN Err("InvalidVersion")
    ELSE IF Byte(d, 0) % 16 < 5 THEN Err("InvalidHeaderLength")
    ELSE Ok(d)

\* The indices parse reads once the length check has passed.
IPv4Packet_parse_reads(d) == IF Len(d) < IPv4MinLen THEN {} ELSE {0}

IPv4_version(d) == (Byte(d, 0) \div 16) % 16
\* u8 arithmetic: (nibble * 4) is at most 60, kept modulo 2^8 as the type does.
IPv4_header_length(d) == ((Byte(d, 0) % 16) * 4) % 256
IPv4_dscp(d) == Byte(d, 1) \div 4
IPv4_ecn(d) == Byte(d, 1) % 4
IPv4_total_length(d) == U16(d, 2)
IPv4_identification(d) == U16(d, 4)
IPv4_flags(d) == Byte(d, 6) \div 32
\* fragment_offset without the 0x1F mask on byte 6.
IPv4_fragment_offset_NoMask(d) == Byte(d, 6) * 256 + Byte(d, 7)
IPv4_fragment_offset(d) == (Byte(d, 6) % 32) * 256 + Byte(d, 7)
IPv4_ttl(d) == Byte(d, 8)
IPv4_protocol(d) == Byte(d, 9)
IPv4_checksum(d) == U16(d, 10)
\* Ipv4Addr::new(a, b, c, d).to_string()
Ipv4AddrToString(a) ==
    Dec(a[1]) \o "." \o Dec(a[2]) \o "." \o Dec(a[3]) \o "." \o Dec(a[4])
IPv4_source_ip(d) == <<Byte(d, 12), Byte(d, 13), Byte(d, 14), Byte(d, 15)>>
IPv4_destination_ip(d) == <<Byte(d, 16), Byte(d, 17), Byte(d, 18), Byte(d, 19)>>

IPv4_get_protocol_name(d) ==
    CASE IPv4_protocol(d) = 1 -> "ICMP"
      [] IPv4_protocol(d) = 2 -> "IGMP"
      [] IPv4_protocol(d) = 6 -> "TCP"
      [] IPv4_protocol(d) = 17 -> "UDP"
      [] OTHER -> "Unknown (" \o Dec(IPv4_protocol(d)) \o ")"

RECURSIVE Join(_, _)
\* desc.join(sep)
Join(parts, sep) ==
    IF Len(parts) = 0 THEN ""
    ELSE IF Len(parts) = 1 THEN parts[1]
    ELSE parts[1] \o sep \o Join(Tail(parts), sep)

\* flags & mask != 0, for a one-bit mask
BitSet(flags, mask) == (flags \div mask) % 2 = 1

\* The labels with bits 0 and 1 exchanged.
FlagsLabels_DfFirst(flags) ==
    (IF BitSet(flags, 2) THEN <<"Don't Fragment">> ELSE <<>>)
    \o (IF BitSet(flags, 1) THEN <<"More Fragments">> ELSE <<>>)
    \o (IF BitSet(flags, 4) THEN <<"Reserved">> ELSE <<>>)

\* The labels pushed onto desc, in push order.
FlagsLabels(flags) ==
    (IF BitSet(flags, 1) THEN <<"More Fragments">> ELSE <<>>)
    \o (IF BitSet(flags, 2) THEN <<"Don't Fragment">> ELSE <<>>)
    \o (IF BitSet(flags, 4) THEN <<"Reserved">> ELSE <<>>)

IPv4_get_flags_description(d) ==
    LET desc == FlagsLabels(IPv4_flags(d))
    IN  IF Len(desc) = 0 THEN "None" ELSE Join(desc, ", ")

\* get_control_fields with the ECN entry left out (twelve entries).
IPv4_get_control_fields_NoEcn(d) == <<
    ControlField("IP Version", Dec(IPv4_version(d)), "Internet Protocol version"),
    ControlField("Header Length", Dec(IPv4_header_length(d)), "IP header length in bytes"),
    ControlField("DSCP", Dec(IPv4_dscp(d)), "Differentiated Services Code Point"),
    ControlField("Total Length", Dec(IPv4_total_length(d)), "Total packet length in bytes"),
    ControlField("Identification", "0x" \o Hex(IPv4_identification(d), 4),
                 "Packet identification for fragmentation"),
    ControlField("Flags", "0x" \o Hex(IPv4_flags(d), 2), IPv4_get_flags_description(d)),
    ControlField("Fragment Offset", Dec(IPv4_fragment_offset(d)),
                 "Fragment offset in 8-byte units"),
    ControlField("TTL", Dec(IPv4_ttl(d)), "Time to Live"),
    ControlField("Protocol", Dec(IPv4_protocol(d)), IPv4_get_protocol_name(d)),
    ControlField("Checksum", "0x" \o Hex(IPv4_checksum(d), 4), "Header checksum"),
    ControlField("Source IP", Ipv4AddrToString(IPv4_source_ip(d)), "Source IP address"),
    ControlField("Destination IP", Ipv4AddrToString(IPv4_destination_ip(d)),
                 "Destination IP address") >>

IPv4_get_control_fields(d) == <<
    ControlField("IP Version", Dec(IPv4_version(d)), "Internet Protocol version"),
    ControlField("Header Length", Dec(IPv4_header_length(d)), "IP header length in bytes"),
    ControlField("DSCP", Dec(IPv4_dscp(d)), "Differentiated Services Code Point"),
    ControlField("ECN", Dec(IPv4_ecn(d)), "Explicit Congestion Notification"),
    ControlField("Total Length", Dec(IPv4_total_length(d)), "Total packet length in bytes"),
    ControlField("Identification", "0x" \o Hex(IPv4_identification(d), 4),
                 "Packet identification for fragmentation"),
    ControlField("Flags", "0x" \o Hex(IPv4_flags(d), 2), IPv4_get_flags_description(d)),
    ControlField("Fragment Offset", Dec(IPv4_fragment_offset(d)),
                 "Fragment offset in 8-byte units"),
    ControlField("TTL", Dec(IPv4_ttl(d)), "Time to Live"),
    ControlField("Protocol", Dec(IPv4_protocol(d)), IPv4_get_protocol_name(d)),
    ControlField("Checksum", "0x" \o Hex(IPv4_checksum(d), 4), "Header checksum"),
    ControlField("Source IP", Ipv4AddrToString(IPv4_source_ip(d)), "Source IP address"),
    ControlField("Destination IP", Ipv4AddrToString(IPv4_destination_ip(d)),
                 "Destination IP address") >>

\* The indices get_control_fields reads through its accessors.
IPv4_get_control_fields_reads == 0..19

(***************************************************************************)
(* protocols/ipv6.rs                                                       *)
(***************************************************************************)
\* The fixed IPv6 header: parse's length check.
IPv6MinLen == 40

\* parse with the length check one byte short (len < 39).
IPv6Packet_parse_OffByOne(d) ==
    IF Len(d) < IPv6MinLen - 1 THEN Err("TooShort")
    ELSE IF (Byte(d, 0) \div 16) % 16 # 6 THEN Err("InvalidVersion")
    ELSE Ok(d)

IPv6Packet_parse(d) ==
    IF Len(d) < IPv6MinLen THEN Err("TooShort")
    ELSE IF (Byte(d, 0) \div 16) % 16 # 6 THEN Err("InvalidVersion")
    ELSE Ok(d)

IPv6Packet_parse_reads(d) == IF Len(d) < IPv6MinLen THEN {} ELSE {0}

IPv6_version(d) == (Byte(d, 0) \div 16) % 16
\* u8: the shifted low nibble is at most 240, kept modulo 2^8 as the type does.
\* traffic_class with its two nibbles exchanged.
IPv6_traffic_class_Swapped(d) == ((Byte(d, 1) \div 16) * 16) + (Byte(d, 0) % 16)
IPv6_traffic_class(d) == (((Byte(d, 0) % 16) * 16) % 256) + (Byte(d, 1) \div 16)
IPv6_flow_label(d) == (Byte(d, 1) % 16) * 65536 + Byte(d, 2) * 256 + Byte(d, 3)
IPv6_payload_length(d) == U16(d, 4)
IPv6_next_header(d) == Byte(d, 6)
IPv6_hop_limit(d) == Byte(d, 7)
\* addr.copy_from_slice(&data[lo..lo+16]): the sixteen bytes of an address.
IPv6_source_ip(d) == [k \in 1..16 |-> Byte(d, 8 + k - 1)]
IPv6_destination_ip(d) == [k \in 1..16 |-> Byte(d, 24 + k - 1)]

\* Ipv6Addr::segments(): eight big-endian 16-bit groups.
Segments(a) == [k \in 1..8 |-> a[2 * k - 1] * 256 + a[2 * k]]

\* The zero run that ends at segment k (0 when segment k is not zero).
RECURSIVE ZeroRunEndingAt(_, _)
ZeroRunEndingAt(seg, k) ==
    IF k = 0 \/ seg[k] # 0 THEN 0 ELSE 1 + ZeroRunEndingAt(seg, k - 1)

\* fmt_subslice: the groups lo..hi in {:x}, joined by ':'.
RECURSIVE FmtSubslice(_, _, _)
FmtSubslice(seg, lo, hi) ==
    IF lo > hi THEN ""
    ELSE IF lo = hi THEN LowerHex(seg[lo])
    ELSE LowerHex(seg[lo]) \o ":" \o FmtSubslice(seg, lo + 1, hi)

\* Display of std::net::Ipv6Addr: "::ffff:a.b.c.d" for an IPv4-mapped
\* address, otherwise the groups with the first longest run of two or more
\* zero groups written "::".
Ipv6AddrToString(a) ==
    LET seg == Segments(a)
        longest == LET m == CHOOSE n \in 0..8 :
                               /\ \E k \in 1..8 : ZeroRunEndingAt(seg, k) >= n
                               /\ \A k \in 1..8 : ZeroRunEndingAt(seg, k) <= n
                   IN  m
        endAt == IF longest = 0 THEN 0
                 ELSE CHOOSE k \in 1..8 :
                        /\ ZeroRunEndingAt(seg, k) = longest
                        /\ \A j \in 1..(k - 1) : ZeroRunEndingAt(seg, j) < longest
        start == endAt - longest + 1
    IN  IF (\A k \in 1..5 : seg[k] = 0) /\ seg[6] = 65535
        THEN "::ffff:" \o Ipv4AddrToString(<<a[13], a[14], a[15], a[16]>>)
        ELSE IF longest > 1
        THEN FmtSubslice(seg, 1, start - 1) \o "::" \o FmtSubslice(seg, endAt + 1, 8)
        ELSE FmtSubslice(seg, 1, 8)

IPv6_get_next_header_name(d) ==
    CASE IPv6_next_header(d) = 0 -> "Hop-by-Hop Options"
      [] IPv6_next_header(d) = 1 -> "ICMP"
      [] IPv6_next_header(d) = 6 -> "TCP"
      [] IPv6_next_header(d) = 17 -> "UDP"
      [] IPv6_next_header(d) = 43 -> "Routing"
      [] IPv6_next_header(d) = 44 -> "Fragment"
      [] IPv6_next_header(d) = 50 -> "ESP"
      [] IPv6_next_header(d) = 51 -> "AH"
      [] IPv6_next_header(d) = 58 -> "ICMPv6"
      [] IPv6_next_header(d) = 59 -> "No Next Header"
      [] IPv6_next_header(d) = 60 -> "Destination Options"
      [] OTHER -> "Unknown (" \o Dec(IPv6_next_header(d)) \o ")"

\* get_control_fields with Flow Label and Traffic Class exchanged.
IPv6_get_control_fields_Swapped(d) == <<
    ControlField("IP Version", Dec(IPv6_version(d)), "Internet Protocol version"),
    ControlField("Flow Label", "0x" \o Hex(IPv6_flow_label(d), 5), "Flow label field"),
    ControlField("Traffic Class", "0x" \o Hex(IPv6_traffic_class(d), 2),
                 "Traffic class field"),
    ControlField("Payload Length", Dec(IPv6_payload_length(d)),
                 "Length of the payload in bytes"),
    ControlField("Next Header", Dec(IPv6_next_header(d)), IPv6_get_next_header_name(d)),
    ControlField("Hop Limit", Dec(IPv6_hop_limit(d)), "Hop limit (similar to IPv4 TTL)"),
    ControlField("Source IP", Ipv6AddrToString(IPv6_source_ip(d)), "Source IPv6 address"),
    ControlField("Destination IP", Ipv6AddrToString(IPv6_destination_ip(d)),
                 "Destination IPv6 address") >>

IPv6_get_control_fields(d) == <<
    ControlField("IP Version", Dec(IPv6_version(d)), "Internet Protocol version"),
    ControlField("Traffic Class", "0x" \o Hex(IPv6_traffic_class(d), 2),
                 "Traffic class field"),
    ControlField("Flow Label", "0x" \o Hex(IPv6_flow_label(d), 5), "Flow label field"),
    ControlField("Payload Length", Dec(IPv6_payload_length(d)),
                 "Length of the payload in bytes"),
    ControlField("Next Header", Dec(IPv6_next_header(d)), IPv6_get_next_header_name(d)),
    ControlField("Hop Limit", Dec(IPv6_hop_limit(d)), "Hop limit (similar to IPv4 TTL)"),
    ControlField("Source IP", Ipv6AddrToString(IPv6_source_ip(d)), "Source IPv6 address"),
    ControlField("Destination IP", Ipv6AddrToString(IPv6_destination_ip(d)),
                 "Destination IPv6 address") >>

\* The indices get_control_fields reads through its accessors.
IPv6_get_control_fields_reads == 0..39

(***************************************************************************)
(* ethernet.rs                                                             *)
(***************************************************************************)
\* The fixed Ethernet header: parse's length check.
EthMinLen == 14

\* parse rejecting a frame of exactly 14 bytes (len <= 14).
EthernetFrame_parse_OffByOne(d) ==
    IF Len(d) <= EthMinLen THEN Err("TooShort") ELSE Ok(d)

EthernetFrame_parse(d) ==
    IF Len(d) < EthMinLen THEN Err("TooShort") ELSE Ok(d)

\* mac.copy_from_slice(&data[0..6]) and (&data[6..12])
dest_mac(d) == [k \in 1..6 |-> Byte(d, k - 1)]
src_mac(d) == [k \in 1..6 |-> Byte(d, 6 + k - 1)]
ether_type(d) == U16(d, 12)
\* &data[14..]: the bytes from index 14 on, empty when the frame has 14.
payload(d) == SubSeq(d, 15, Len(d))

\* Display of MacAddress: six {:02x} joined by ':'.
MacAddressToString(m) ==
    Hex(m[1], 2) \o ":" \o Hex(m[2], 2) \o ":" \o Hex(m[3], 2) \o ":"
    \o Hex(m[4], 2) \o ":" \o Hex(m[5], 2) \o ":" \o Hex(m[6], 2)

\* Display of EtherType: 0x{:04x}
EtherTypeToString(e) == "0x" \o Hex(e, 4)

get_protocol_description(e) ==
    CASE e = 2048 -> "IPv4"
      [] e = 2054 -> "ARP"
      [] e = 34525 -> "IPv6"
      [] e = 33024 -> "VLAN"
      [] e = 35020 -> "LLDP"
      [] OTHER -> "Unknown (0x" \o Hex(e, 4) \o ")"

\* The three control fields get_frame_control starts from.
EthernetFields(d) == <<
    ControlField("Source MAC", MacAddressToString(src_mac(d)), "Source hardware address"),
    ControlField("Destination MAC", MacAddressToString(dest_mac(d)),
                 "Destination hardware address"),
    ControlField("EtherType", EtherTypeToString(ether_type(d)),
                 get_protocol_description(ether_type(d))) >>

\* The dispatch choosing the inner decoder by the version nibble of the
\* payload instead of the EtherType.
InnerDecoder_ByVersion(d) ==
    CASE Byte(payload(d), 0) \div 16 = 4 -> "IPv4"
      [] Byte(payload(d), 0) \div 16 = 6 -> "IPv6"
      [] OTHER -> "None"

\* match etype.0: the decoder get_frame_control runs on the payload.
InnerDecoder(d) ==
    CASE ether_type(d) = 2048 -> "IPv4"
      [] ether_type(d) = 34525 -> "IPv6"
      [] OTHER -> "None"

\* The result of the inner decoder's parse ("None" when none is run).
InnerParse(d) ==
    CASE InnerDecoder(d) = "IPv4" -> IPv4Packet_parse(payload(d))
      [] InnerDecoder(d) = "IPv6" -> IPv6Packet_parse(payload(d))
      [] OTHER -> Err("None")

\* control_fields.extend(...): what the inner layer appends.
InnerFields(d) ==
    CASE InnerDecoder(d) = "IPv4" /\ InnerParse(d).tag = "Ok"
            -> IPv4_get_control_fields(InnerParse(d).data)
      [] InnerDecoder(d) = "IPv6" /\ InnerParse(d).tag = "Ok"
            -> IPv6_get_control_fields(InnerParse(d).data)
      [] OTHER -> <<>>

\* get_frame_control with the inner fields put before the Ethernet fields.
get_frame_control_InnerFirst(d) ==
    FrameControlInfo("Ethernet", InnerFields(d) \o EthernetFields(d))

get_frame_control(d) ==
    FrameControlInfo("Ethernet", EthernetFields(d) \o InnerFields(d))

\* Every index get_frame_control reads, with the buffer it indexes: the
\* frame for the three Ethernet accessors, the payload for the inner decoder.
get_frame_control_reads(d) ==
    {<<"frame", i>> : i \in 0..13}
    \cup (CASE InnerDecoder(d) = "IPv4" ->
                 {<<"payload", i>> : i \in IPv4Packet_parse_reads(payload(d))}
                 \cup (IF InnerParse(d).tag = "Ok"
                       THEN {<<"payload", i>> : i \in IPv4_get_control_fields_reads}
                       ELSE {})
            [] InnerDecoder(d) = "IPv6" ->
                 {<<"payload", i>> : i \in IPv6Packet_parse_reads(payload(d))}
                 \cup (IF InnerParse(d).tag = "Ok"
                       THEN {<<"payload", i>> : i \in IPv6_get_control_fields_reads}
                       ELSE {})
            [] OTHER -> {})

(***************************************************************************)
(* main.rs: analyze_frame_control                                          *)
(***************************************************************************)
\* analyze_frame_control without its own length check and with the
\* Ethernet parse result ignored.
analyze_frame_control_Unchecked(d) == <<get_frame_control(d)>>

analyze_frame_control(d) ==
    IF Len(d) < 14 THEN <<>>
    ELSE IF EthernetFrame_parse(d).tag = "Ok" THEN <<get_frame_control(d)>>
    ELSE <<>>

\* The indices analyze_frame_control reads: none when it returns None.
analyze_frame_control_reads(d) ==
    IF analyze_frame_control(d) = <<>> THEN {} ELSE get_frame_control_reads(d)

\* A read at or past the end of the buffer it indexes (a panic in Rust).
OutOfBounds(d, rd) ==
    \E r \in rd : \/ r[1] = "frame" /\ r[2] >= Len(d)
                  \/ r[1] = "payload" /\ r[2] >= Len(payload(d))

(***************************************************************************)
(* ai_analyzer.rs                                                          *)
(***************************************************************************)
\* What the remote call can come back with: the transport fails; the body
\* does not decode as a DeepseekResponse; or it decodes, with a list of
\* choices whose text does ("analysis") or does not ("other") parse as a
\* SecurityAnalysis.
Responses == {
    [send |-> "err", body |-> "none", choices |-> <<>>],
    [send |-> "ok", body |-> "other", choices |-> <<>>],
    [send |-> "ok", body |-> "response", choices |-> <<>>],
    [send |-> "ok", body |-> "response", choices |-> <<"analysis">>],
    [send |-> "ok", body |-> "response", choices |-> <<"other">>],
    [send |-> "ok", body |-> "response", choices |-> <<"other", "analysis">>] }

\* analyze_packet_security: "Ok" (a SecurityAnalysis), "Err" (an error
\* value), or "Panic" (response.choices[0] on an empty list).
analyze_packet_security(resp) ==
    IF resp.send # "ok" THEN "Err"
    ELSE IF resp.body # "response" THEN "Err"
    ELSE IF Len(resp.choices) = 0 THEN "Panic"
    ELSE IF resp.choices[1] # "analysis" THEN "Err"
    ELSE "Ok"

(***************************************************************************)
(* The captured frames handed to the decoders.                             *)
(***************************************************************************)
\* The bytes the cases below do not set.
Fill(i) == (i * 37 + 11) % 256

\* A frame of len bytes: EtherType et at 12-13, b0 as the first payload
\* byte (version / IHL), b6 as payload byte 6 (IPv4 flags and offset).
Frame(len, et, b0, b6) ==
    [k \in 1..len |->
        CASE k - 1 = 12 -> et \div 256
          [] k - 1 = 13 -> et % 256
          [] k - 1 = 14 -> b0
          [] k - 1 = 20 -> b6
          [] OTHER -> Fill(k - 1)]

\* Lengths around each decoder's minimum (14, 14 + 20, 14 + 40).
Lengths == {0, 1, 13, 14, 15, 33, 34, 35, 53, 54} \cup {54 + k : k \in 1..MaxPad}
\* IPv4, IPv6, ARP, VLAN.
EtherTypes == {2048, 34525, 2054, 33024}
\* 0x45, 0x44, 0x55, 0x60, 0x4f, 0x46, 0x65
FirstBytes == {69, 68, 85, 96, 79, 70, 101}
\* Every 3-bit flags value, with the offset bits of the byte clear and set.
FlagBytes == {32 * f + low : f \in 0..7, low \in {0, 31}}
\* Values of payload byte 1 (DSCP / ECN; traffic class / flow label):
\* 0x00, 0x03, 0x0f, 0xf0, 0xfc, 0xff
SecondBytes == {0, 3, 15, 240, 252, 255}

\* Frame f with the byte at index i set to v.
WithByte(f, i, v) == [f EXCEPT ![i + 1] = v]

Packets ==
    {Frame(len, et, IF et = 34525 THEN 96 ELSE 69, Fill(20)) :
        len \in Lengths, et \in EtherTypes}
    \cup {Frame(len, et, b0, Fill(20)) :
        len \in {34, 54}, et \in EtherTypes, b0 \in FirstBytes}
    \cup {Frame(34, 2048, 69, b6) : b6 \in FlagBytes}
    \cup {WithByte(Frame(54, 2048, 69, Fill(20)), 15, b1) : b1 \in SecondBytes}
    \cup {WithByte(Frame(54, 34525, 111, Fill(20)), 15, b1) : b1 \in SecondBytes}

\* The decoding of every frame of the model, computed once: what
\* analyze_frame_control returns, the indices it reads, and whether one of
\* them is out of bounds.
Decoded ==
    [p \in Packets |->
        [fc |-> analyze_frame_control(p),
         reads |-> analyze_frame_control_reads(p),
         oob |-> OutOfBounds(p, analyze_frame_control_reads(p))]]

(***************************************************************************)
(* main.rs: main, start_capture, start_capture_with_ai                     *)
(***************************************************************************)
VARIABLES
    pc,                     \* "main", "loop" (inside a capture loop), "exited"
    mode,                   \* "none", "basic" (start_capture), "ai"
    count,                  \* let mut count
    first_packet_analyzed,  \* let mut first_packet_analyzed (AI mode)
    data,                   \* packet.data of the last delivered packet
    fc,                     \* what analyze_frame_control returned for it
    reads,                  \* the byte indices read while decoding it
    oob,                    \* one of them was out of bounds (a panic)
    ret,                    \* the capture function's return value
    main_ret,               \* main's return value, or "panic"
    exit_cause,             \* what ended the capture loop
    event,                  \* the last outcome of cap.next_packet()
    analysis,               \* the last result of analyze_packet_security
    delivered,              \* history: packets next_packet() has delivered
    analyses,               \* history: calls of analyze_packet_security
    awaiting,               \* the .await the call is suspended at, or "none"
    pauses                  \* history: waits for Enter

vars == <<pc, mode, count, first_packet_analyzed, data, fc, reads, oob, ret,
          main_ret, exit_cause, event, analysis, delivered, analyses,
          awaiting, pauses>>

decodeVars == <<data, fc, reads, oob>>

Init ==
    /\ pc = "main"
    /\ mode = "none"
    /\ count = 0
    /\ first_packet_analyzed = FALSE
    /\ data = <<>>
    /\ fc = <<>>
    /\ reads = {}
    /\ oob = FALSE
    /\ ret = "none"
    /\ main_ret = "none"
    /\ exit_cause = "none"
    /\ event = "none"
    /\ analysis = "none"
    /\ delivered = 0
    /\ analyses = 0
    /\ awaiting = "none"
    /\ pauses = 0

\* choice: the u8 read from stdin (unwrap_or(1)); 2 selects AI mode, every
\* other value the basic capture.
Choices == {1, 2, 3}
ModeOf(choice) == IF choice = 2 THEN "ai" ELSE "basic"

\* The ways the setup before the loop can fail.
SetupFailures == {"list_failed", "not_found", "open_failed", "nonblock_failed"}

\* main's return value for a capture function's Err: start_capture's error
\* is returned as it is, start_capture_with_ai's boxed error becomes Other.
MainErr(m, e) == IF m = "ai" THEN "Err(Other)" ELSE e

\* main: io::stdin().read_line fails.
MainReadLineFails ==
    /\ pc = "main"
    /\ pc' = "exited"
    /\ main_ret' = "Err(InputError)"
    /\ exit_cause' = "stdin"
    /\ UNCHANGED <<mode, count, first_packet_analyzed, decodeVars, ret, event,
                   analysis, delivered, analyses, awaiting, pauses>>

\* main: choice 2 without DEEPSEEK_API_KEY: expect() panics.
MainApiKeyMissing ==
    /\ pc = "main"
    /\ pc' = "exited"
    /\ main_ret' = "panic"
    /\ exit_cause' = "api_key"
    /\ UNCHANGED <<mode, count, first_packet_analyzed, decodeVars, ret, event,
                   analysis, delivered, analyses, awaiting, pauses>>

\* The capture function is entered and its setup fails: Device::list,
\* find, open or setnonblock.
SetupFails(choice, failure) ==
    /\ pc = "main"
    /\ pc' = "exited"
    /\ mode' = ModeOf(choice)
    /\ ret' = IF failure = "not_found" THEN "Err(InterfaceNotFound)"
              ELSE "Err(PcapError)"
    /\ main_ret' = MainErr(ModeOf(choice), ret')
    /\ exit_cause' = "setup"
    /\ UNCHANGED <<count, first_packet_analyzed, decodeVars, event, analysis,
                   delivered, analyses, awaiting, pauses>>

\* The capture function is entered, its setup succeeds and it reaches its
\* loop with count = 0 and first_packet_analyzed = false.
SetupOk(choice) ==
    /\ pc = "main"
    /\ pc' = "loop"
    /\ mode' = ModeOf(choice)
    /\ count' = 0
    /\ first_packet_analyzed' = FALSE
    /\ UNCHANGED <<decodeVars, ret, main_ret, exit_cause, event, analysis,
                   delivered, analyses, awaiting, pauses>>

\* An iteration of the AI loop starts by waiting for Enter when
\* first_packet_analyzed is set, and clears it once the line is read.
Pausing == mode = "ai" /\ first_packet_analyzed
PauseDone == pauses' = pauses + (IF Pausing THEN 1 ELSE 0)

\* start_capture_with_ai: the read_line of the pause fails (the ? returns).
PauseReadLineFails ==
    /\ pc = "loop"
    /\ awaiting = "none"
    /\ Pausing
    /\ pauses' = pauses + 1
    /\ pc' = "exited"
    /\ ret' = "Err(Io)"
    /\ main_ret' = "Err(Other)"
    /\ exit_cause' = "stdin"
    /\ UNCHANGED <<mode, count, first_packet_analyzed, decodeVars, event,
                   analysis, delivered, analyses, awaiting>>

\* The loop exits by a panic.
Panicked(cause) ==
    /\ pc' = "exited"
    /\ main_ret' = "panic"
    /\ exit_cause' = cause
    /\ UNCHANGED ret

\* The loop goes on to its next iteration.
Continues ==
    /\ pc' = "loop"
    /\ UNCHANGED <<ret, main_ret, exit_cause>>

\* One iteration in which next_packet() delivers packet p: the frame is
\* decoded and logged and the packet counted.  In AI mode, for the packet
\* that makes count 1, analyze_packet_security is called: it builds the
\* request and suspends at send().await, and the loop stays inside this
\* iteration until the call returns.
PacketDelivered(p) ==
    /\ pc = "loop"
    /\ awaiting = "none"
    /\ count < MaxPackets
    /\ PauseDone
    /\ event' = "packet"
    /\ delivered' = delivered + 1
    /\ mode' = mode
    /\ data' = p
    /\ fc' = Decoded[p].fc          \* analyze_frame_control(&packet.data)
    /\ reads' = Decoded[p].reads
    /\ oob' = Decoded[p].oob
    /\ first_packet_analyzed' = FALSE
    /\ UNCHANGED analysis
    /\ IF oob'
       THEN /\ Panicked("decode_panic")
            /\ UNCHANGED <<count, analyses, awaiting>>
       ELSE /\ count' = count + 1   \* a u32; the guard keeps it far from 2^32
            /\ Continues
            /\ IF mode = "ai" /\ count' = 1
               THEN /\ analyses' = analyses + 1
                    /\ awaiting' = "send"
               ELSE UNCHANGED <<analyses, awaiting>>

DeliverPacket == \E p \in Packets : PacketDelivered(p)

\* analyze_packet_security is resumed and runs to its end with result: the
\* Ok arm prints the analysis and sets first_packet_analyzed, the Err arm
\* prints the error, and a panic unwinds out of main.
AnalysisReturned(result) ==
    /\ analysis' = result
    /\ awaiting' = "none"
    /\ first_packet_analyzed' = (result = "Ok")
    /\ IF result = "Panic" THEN Panicked("analysis_panic") ELSE Continues
    /\ UNCHANGED <<mode, count, decodeVars, event, delivered, analyses, pauses>>

\* send().await completes with the send part of answer r: a transport error
\* is returned through `?`; otherwise the call suspends again at
\* json().await.  While the remote does not answer no step is taken: the
\* client has no timeout.
SendReturns(r) ==
    /\ pc = "loop"
    /\ awaiting = "send"
    /\ IF r.send = "ok"
       THEN /\ awaiting' = "json"
            /\ UNCHANGED <<pc, mode, count, first_packet_analyzed, decodeVars,
                           ret, main_ret, exit_cause, event, analysis,
                           delivered, analyses, pauses>>
       ELSE AnalysisReturned(analyze_packet_security(r))

\* json().await completes with the body of answer r, and the rest of
\* analyze_packet_security runs: choices[0] and serde_json::from_str.
JsonReturns(r) ==
    /\ pc = "loop"
    /\ awaiting = "json"
    /\ r.send = "ok"
    /\ AnalysisReturned(analyze_packet_security(r))

\* The two nothing-to-deliver arms breaking out of the loop like the
\* catch-all error arm.
NothingDelivered_Fatal(e) ==
    /\ pc = "loop"
    /\ awaiting = "none"
    /\ PauseDone
    /\ event' = e
    /\ first_packet_analyzed' = FALSE
    /\ pc' = "exited"
    /\ ret' = "Ok"
    /\ main_ret' = "Ok"
    /\ exit_cause' = e
    /\ UNCHANGED <<mode, count, decodeVars, analysis, delivered, analyses,
                   awaiting>>

\* One iteration in which next_packet() has nothing to deliver ("Packets
\* are not available", TimeoutExpired): sleep 500 us and poll again.
NothingDelivered(e) ==
    /\ pc = "loop"
    /\ awaiting = "none"
    /\ PauseDone
    /\ event' = e
    /\ first_packet_analyzed' = FALSE
    /\ Continues
    /\ UNCHANGED <<mode, count, decodeVars, analysis, delivered, analyses,
                   awaiting>>

\* One iteration in which next_packet() fails with "Interrupted",
\* "Operation not permitted" or any other error: break, then Ok(()).
CaptureFails(e) ==
    /\ pc = "loop"
    /\ awaiting = "none"
    /\ PauseDone
    /\ event' = e
    /\ first_packet_analyzed' = FALSE
    /\ pc' = "exited"
    /\ ret' = "Ok"
    /\ main_ret' = "Ok"
    /\ exit_cause' = e
    /\ UNCHANGED <<mode, count, decodeVars, analysis, delivered, analyses,
                   awaiting>>

Next ==
    \/ MainReadLineFails
    \/ MainApiKeyMissing
    \/ \E c \in Choices, f \in SetupFailures : SetupFails(c, f)
    \/ \E c \in Choices : SetupOk(c)
    \/ PauseReadLineFails
    \/ DeliverPacket
    \/ \E r \in Responses : SendReturns(r)
    \/ \E r \in Responses : JsonReturns(r)
    \/ \E e \in {"not_available", "timeout"} : NothingDelivered(e)
    \/ \E e \in {"interrupted", "not_permitted", "other_error"} : CaptureFails(e)

Spec == Init /\ [][Next]_vars

(***************************************************************************)
(* Properties.                                                             *)
(***************************************************************************)
\* A packet has been delivered: data, fc and reads describe its decoding.
SomeDelivered == delivered > 0
\* The control fields of the last FrameControlInfo (none when it is None).
LastFields == IF fc = <<>> THEN <<>> ELSE fc[1].control_fields
\* The fields after the three Ethernet ones.
LastInnerFields == SubSeq(LastFields, 4, Len(LastFields))
\* The buffers the decoders are judged on: each frame and its payload.
Buffers == {data, payload(data)}

EthernetNames == <<"Source MAC", "Destination MAC", "EtherType">>
IPv4Names == <<"IP Version", "Header Length", "DSCP", "ECN", "Total Length",
               "Identification", "Flags", "Fragment Offset", "TTL", "Protocol",
               "Checksum", "Source IP", "Destination IP">>
IPv6Names == <<"IP Version", "Traffic Class", "Flow Label", "Payload Length",
               "Next Header", "Hop Limit", "Source IP", "Destination IP">>

\* C1: EthernetFrame::parse fails with TooShort exactly for buffers shorter
\* than 14 bytes and succeeds for every longer one; a decoded frame whose
\* EtherType is neither 0x0800 nor 0x86DD carries exactly the three fields
\* Source MAC, Destination MAC, EtherType.
C1_EthernetParseAndBaseFields ==
    /\ \A b \in Buffers :
         /\ (EthernetFrame_parse(b).tag = "TooShort") <=> (Len(b) < 14)
         /\ Len(b) >= 14 => EthernetFrame_parse(b) = Ok(b)
    /\ (SomeDelivered /\ Len(data) < 14) => fc = <<>>
    /\ (SomeDelivered /\ Len(data) >= 14 /\ ether_type(data) \notin {2048, 34525}) =>
         /\ Len(fc) = 1
         /\ Len(LastFields) = 3
         /\ Names(LastFields) = EthernetNames

\* A 14-byte ARP frame has been decoded into three fields.
C1_Witness ==
    /\ SomeDelivered
    /\ Len(data) = 14
    /\ ether_type(data) = 2054
    /\ Names(LastFields) = EthernetNames

\* The outcome C2 gives for IPv4Packet::parse, by the order of its checks.
C2_Expected(b) ==
    IF Len(b) < 20 THEN "TooShort"
    ELSE IF b[1] \div 16 # 4 THEN "InvalidVersion"
    ELSE IF b[1] % 16 < 5 THEN "InvalidHeaderLength"
    ELSE "Ok"

\* C2: IPv4Packet::parse returns TooShort below 20 bytes, otherwise
\* InvalidVersion when the high nibble of byte 0 is not 4, otherwise
\* InvalidHeaderLength when the IHL nibble is below 5, otherwise it succeeds;
\* 0x45 at length 20 succeeds with header_length() = 20, 0x44 gives
\* InvalidHeaderLength and 0x55 gives InvalidVersion.
C2_IPv4ParseOrder ==
    \A b \in Buffers :
        /\ IPv4Packet_parse(b).tag = C2_Expected(b)
        /\ (Len(b) = 20 /\ b[1] = 69) =>
              /\ IPv4Packet_parse(b) = Ok(b)
              /\ IPv4_header_length(b) = 20
        /\ (Len(b) >= 20 /\ b[1] = 68) => IPv4Packet_parse(b).tag = "InvalidHeaderLength"
        /\ (Len(b) >= 20 /\ b[1] = 85) => IPv4Packet_parse(b).tag = "InvalidVersion"
        /\ (SomeDelivered /\ b = payload(data) /\ Len(data) >= 14
            /\ ether_type(data) = 2048) =>
              (Len(LastFields) > 3 <=> C2_Expected(b) = "Ok")

\* A frame with a 20-byte payload starting 0x45 under EtherType 0x0800 has
\* been decoded and its Header Length field reads 20.
C2_Witness ==
    /\ SomeDelivered
    /\ ether_type(data) = 2048
    /\ Len(payload(data)) = 20
    /\ payload(data)[1] = 69
    /\ Len(LastFields) > 4
    /\ LastFields[5] = ControlField("Header Length", "20", "IP header length in bytes")

\* The outcome C3 gives for IPv6Packet::parse.
C3_Expected(b) ==
    IF Len(b) < 40 THEN "TooShort"
    ELSE IF b[1] \div 16 # 6 THEN "InvalidVersion"
    ELSE "Ok"

\* C3: IPv6Packet::parse returns TooShort below 40 bytes (39 fails, 40 can
\* succeed), otherwise InvalidVersion when the high nibble of byte 0 is not
\* 6, otherwise it succeeds and version() is 6.
C3_IPv6Parse ==
    \A b \in Buffers :
        /\ IPv6Packet_parse(b).tag = C3_Expected(b)
        /\ Len(b) = 39 => IPv6Packet_parse(b).tag = "TooShort"
        /\ (Len(b) = 40 /\ b[1] = 96) =>
              /\ IPv6Packet_parse(b) = Ok(b)
              /\ IPv6_version(b) = 6
        /\ IPv6Packet_parse(b).tag = "Ok" => IPv6_version(b) = 6
        /\ (SomeDelivered /\ b = payload(data) /\ Len(data) >= 14
            /\ ether_type(data) = 34525) =>
              (Len(LastFields) > 3 <=> C3_Expected(b) = "Ok")

\* A frame with a 40-byte payload starting 0x60 under EtherType 0x86DD has
\* been decoded and its IP Version field reads 6.
C3_Witness ==
    /\ SomeDelivered
    /\ ether_type(data) = 34525
    /\ Len(payload(data)) = 40
    /\ payload(data)[1] = 96
    /\ Len(LastFields) > 3
    /\ LastFields[4] = ControlField("IP Version", "6", "Internet Protocol version")

\* The case of C4: EtherType bytes 0x08,0x00 and a 20-byte payload whose
\* first byte is 0x45.
C4_Case ==
    /\ SomeDelivered
    /\ Len(data) = 34
    /\ data[13] = 8
    /\ data[14] = 0
    /\ data[15] = 69

\* C4 as stated: such a frame yields 3 Ethernet fields followed by 12 IPv4
\* fields, 15 in total.
C4_Original ==
    C4_Case =>
        /\ Len(LastFields) = 15
        /\ Len(LastInnerFields) = 12
        /\ SubSeq(LastFields, 1, 3) = EthernetFields(data)
        /\ LastInnerFields = IPv4_get_control_fields(payload(data))

\* C4, amended: such a frame yields the 3 Ethernet fields followed by the 13
\* IPv4 fields, 16 in total, Ethernet first and the IPv4 fields after them in
\* the order the IPv4 decoder produced them.
C4_Amended ==
    C4_Case =>
        /\ Len(fc) = 1
        /\ fc[1].protocol_type = "Ethernet"
        /\ Len(LastFields) = 16
        /\ Names(SubSeq(LastFields, 1, 3)) = EthernetNames
        /\ SubSeq(LastFields, 1, 3) = EthernetFields(data)
        /\ Names(LastInnerFields) = IPv4Names
        /\ LastInnerFields = IPv4_get_control_fields(payload(data))

\* Such a frame has been decoded into 16 fields.
C4_Witness == C4_Case /\ Len(LastFields) = 16

\* The case of C5: the IPv4 decoder has parsed the payload of the frame.
C5_Case ==
    /\ SomeDelivered
    /\ Len(data) >= 14
    /\ ether_type(data) = 2048
    /\ IPv4Packet_parse(payload(data)).tag = "Ok"

\* C5 as stated: get_control_fields emits exactly twelve fields, in the
\* order IP Version, ..., Destination IP.
C5_Original ==
    C5_Case =>
        /\ Len(LastInnerFields) = 12
        /\ \A k \in 1..Len(LastInnerFields) : LastInnerFields[k].name = IPv4Names[k]

\* C5, amended: get_control_fields emits exactly thirteen fields, in the
\* fixed order IP Version, Header Length, DSCP, ECN, Total Length,
\* Identification, Flags, Fragment Offset, TTL, Protocol, Checksum, Source
\* IP, Destination IP, whatever the header bytes are.
C5_Amended ==
    C5_Case =>
        /\ Len(LastInnerFields) = 13
        /\ Names(LastInnerFields) = IPv4Names

\* An IPv4 header with options declared (IHL 15) has been decoded into the
\* thirteen fields.
C5_Witness ==
    /\ C5_Case
    /\ payload(data)[1] = 79
    /\ Names(LastInnerFields) = IPv4Names

\* C6: a frame with EtherType 0x86DD whose payload parses as IPv6 (at least
\* 40 bytes, version nibble 6) yields the three Ethernet fields followed by
\* exactly eight IPv6 fields in the order IP Version, Traffic Class, Flow
\* Label, Payload Length, Next Header, Hop Limit, Source IP, Destination IP.
C6_IPv6Fields ==
    (/\ SomeDelivered
     /\ Len(data) >= 14
     /\ ether_type(data) = 34525
     /\ Len(payload(data)) >= 40
     /\ payload(data)[1] \div 16 = 6) =>
        /\ Len(LastFields) = 11
        /\ Names(SubSeq(LastFields, 1, 3)) = EthernetNames
        /\ Len(LastInnerFields) = 8
        /\ Names(LastInnerFields) = IPv6Names

\* An IPv6 frame with a non-zero traffic class nibble has been decoded into
\* eleven fields.
C6_Witness ==
    /\ SomeDelivered
    /\ Len(data) >= 54
    /\ ether_type(data) = 34525
    /\ payload(data)[1] = 101
    /\ Len(LastFields) = 11

\* The case of C7: the decoder the EtherType selects fails on the payload.
C7_Case ==
    /\ SomeDelivered
    /\ Len(data) >= 14
    /\ \/ ether_type(data) = 2048 /\ IPv4Packet_parse(payload(data)).tag # "Ok"
       \/ ether_type(data) = 34525 /\ IPv6Packet_parse(payload(data)).tag # "Ok"

\* C7: when the inner decoder selected by EtherType 0x0800 or 0x86DD fails
\* (TooShort, InvalidVersion, InvalidHeaderLength), get_frame_control still
\* returns a FrameControlInfo tagged Ethernet with exactly the three
\* Ethernet fields and no error; the decoder is chosen by EtherType alone,
\* never by the payload's version nibble.
C7_InnerFailureOmitted ==
    /\ C7_Case =>
         /\ fc = <<FrameControlInfo("Ethernet", EthernetFields(data))>>
         /\ Names(LastFields) = EthernetNames
         /\ exit_cause # "decode_panic"
    /\ (SomeDelivered /\ Len(data) >= 14 /\ ether_type(data) = 2048
        /\ IPv6Packet_parse(payload(data)).tag = "Ok") => Len(LastFields) = 3
    /\ (SomeDelivered /\ Len(data) >= 14 /\ ether_type(data) = 34525
        /\ IPv4Packet_parse(payload(data)).tag = "Ok") => Len(LastFields) = 3

\* A well-formed IPv6 header under EtherType 0x0800 has been decoded into
\* the three Ethernet fields only.
C7_Witness ==
    /\ SomeDelivered
    /\ ether_type(data) = 2048
    /\ IPv6Packet_parse(payload(data)).tag = "Ok"
    /\ IPv4Packet_parse(payload(data)).tag = "InvalidVersion"
    /\ Len(LastFields) = 3

\* C8: no decoder returns a view of a buffer below its minimum length (14,
\* 20, 40); every index read while decoding a frame, inner decoder
\* included, is below the length of the buffer it indexes, so no read
\* panics; payload() of a 14-byte frame is empty.
C8_ReadsInBounds ==
    /\ \A b \in Buffers :
         /\ EthernetFrame_parse(b).tag = "Ok" => Len(b) >= 14
         /\ IPv4Packet_parse(b).tag = "Ok" => Len(b) >= 20
         /\ IPv6Packet_parse(b).tag = "Ok" => Len(b) >= 40
    /\ fc # <<>> => Len(data) >= 14
    /\ Len(LastFields) > 3 =>
         Len(payload(data)) >= (IF ether_type(data) = 2048 THEN 20 ELSE 40)
    /\ \A r \in reads :
         \/ r[1] = "frame" /\ r[2] < Len(data)
         \/ r[1] = "payload" /\ r[2] < Len(payload(data))
    /\ ~oob
    /\ exit_cause # "decode_panic"
    /\ Len(data) = 14 => payload(data) = <<>>

\* An IPv4 header of exactly 20 bytes has been decoded, its last byte read.
C8_Witness ==
    /\ SomeDelivered
    /\ Len(payload(data)) = 20
    /\ <<"payload", 19>> \in reads
    /\ <<"frame", 13>> \in reads

\* C9 as stated: in both capture loops every delivered packet is counted
\* and the loop goes on to poll for the next one, whatever the decoder
\* returned; the loop is left only by a capture error other than "Packets
\* are not available" and TimeoutExpired, or in AI mode by a stdin error.
C9_Original ==
    [][/\ (delivered' = delivered + 1) => (count' = count + 1 /\ pc' = "loop")
       /\ (pc = "loop" /\ pc' # "loop") =>
             \/ event' \in {"interrupted", "not_permitted", "other_error"}
             \/ mode = "ai" /\ exit_cause' = "stdin"]_vars

\* The description C10 gives for each 3-bit flags value.
C10_Expected(f) ==
    CASE f = 0 -> "None"
      [] f = 1 -> "More Fragments"
      [] f = 2 -> "Don't Fragment"
      [] f = 3 -> "More Fragments, Don't Fragment"
      [] f = 4 -> "Reserved"
      [] f = 5 -> "More Fragments, Reserved"
      [] f = 6 -> "Don't Fragment, Reserved"
      [] f = 7 -> "More Fragments, Don't Fragment, Reserved"

\* C10: the flags description of a parsed IPv4 packet joins with ", " the
\* labels of the set bits of the top three bits of byte 6, bit 0 "More
\* Fragments", bit 1 "Don't Fragment", bit 2 "Reserved", in that order, and
\* is "None" exactly when none is set; 0 gives "None" and bit 1 alone gives
\* "Don't Fragment".
C10_FlagsDescription ==
    C5_Case =>
        LET f == payload(data)[7] \div 32
            flagsField == LastInnerFields[7]
        IN  /\ IPv4_flags(payload(data)) = f
            /\ flagsField.name = "Flags"
            /\ flagsField.description = C10_Expected(f)
            /\ (flagsField.description = "None") <=> (f = 0)
            /\ f = 2 => flagsField.description = "Don't Fragment"

\* A header with both fragment bits set has been decoded and described.
C10_Witness ==
    /\ C5_Case
    /\ payload(data)[7] \div 32 = 3
    /\ LastInnerFields[7].description = "More Fragments, Don't Fragment"

\* C11: IPv4Packet::parse does not reject a header whose declared length
\* exceeds the buffer: with at least 20 bytes, version nibble 4 and an IHL
\* in 6..15 such that IHL * 4 is more than the buffer holds, parse succeeds,
\* header_length() is IHL * 4 (at most 60, within 8 bits) and
\* get_control_fields reads bytes 0..19 only.
C11_DeclaredLengthNotChecked ==
    \A b \in Buffers :
        (/\ Len(b) >= 20
         /\ b[1] \div 16 = 4
         /\ b[1] % 16 \in 6..15
         /\ (b[1] % 16) * 4 > Len(b)) =>
            /\ IPv4Packet_parse(b) = Ok(b)
            /\ IPv4_header_length(b) = (b[1] % 16) * 4
            /\ IPv4_header_length(b) <= 60
            /\ (SomeDelivered /\ b = payload(data) /\ Len(data) >= 14
                /\ ether_type(data) = 2048) =>
                  /\ Names(LastInnerFields) = IPv4Names
                  /\ LastInnerFields[2].value = Dec((b[1] % 16) * 4)
                  /\ {r[2] : r \in {q \in reads : q[1] = "payload"}} = 0..19

\* A 20-byte header declaring 60 bytes (0x4f) has been decoded: its Header
\* Length field reads 60 and no byte past index 19 was read.
C11_Witness ==
    /\ SomeDelivered
    /\ ether_type(data) = 2048
    /\ Len(payload(data)) = 20
    /\ payload(data)[1] = 79
    /\ Len(LastFields) = 16
    /\ LastFields[5].value = "60"
    /\ <<"payload", 20>> \notin reads

\* C12 as stated: whatever the remote call comes back with,
\* analyze_packet_security ends by returning a SecurityAnalysis or an error
\* value to its caller, and never in another way such as a panic.  (A call
\* still suspended at an .await has not ended.)
C12_Original ==
    /\ (analyses > 0 /\ awaiting = "none") => analysis \in {"Ok", "Err"}
    /\ \A resp \in Responses : analyze_packet_security(resp) \in {"Ok", "Err"}
    /\ exit_cause # "analysis_panic"

\* C13: the bit-packed accessors of a parsed IPv4 packet partition their
\* bytes: version * 16 + header_length / 4 is byte 0 with header_length in
\* {20, 24, ..., 60}; dscp * 4 + ecn is byte 1 with dscp in 0..63 and ecn in
\* 0..3; flags * 8192 + fragment_offset is byte 6 * 256 + byte 7 with flags
\* in 0..7 and fragment_offset in 0..8191; total_length, identification and
\* checksum are the big-endian values of bytes 2-3, 4-5 and 10-11.
C13_IPv4BitFields ==
    \A b \in Buffers :
        IPv4Packet_parse(b).tag = "Ok" =>
            /\ IPv4_version(b) * 16 + IPv4_header_length(b) \div 4 = b[1]
            /\ IPv4_header_length(b) \in {4 * n : n \in 5..15}
            /\ IPv4_dscp(b) * 4 + IPv4_ecn(b) = b[2]
            /\ IPv4_dscp(b) \in 0..63
            /\ IPv4_ecn(b) \in 0..3
            /\ IPv4_flags(b) * 8192 + IPv4_fragment_offset(b) = b[7] * 256 + b[8]
            /\ IPv4_flags(b) \in 0..7
            /\ IPv4_fragment_offset(b) \in 0..8191
            /\ IPv4_total_length(b) = b[3] * 256 + b[4]
            /\ IPv4_identification(b) = b[5] * 256 + b[6]
            /\ IPv4_checksum(b) = b[11] * 256 + b[12]
            /\ (SomeDelivered /\ b = payload(data) /\ Len(data) >= 14
                /\ ether_type(data) = 2048) =>
                  /\ LastInnerFields[3].value = Dec(b[2] \div 4)
                  /\ LastInnerFields[4].value = Dec(b[2] % 4)
                  /\ LastInnerFields[8].value = Dec((b[7] % 32) * 256 + b[8])

\* A header with all flag bits and all high offset bits set (byte 6 = 0xff)
\* has been decoded.
C13_Witness ==
    /\ C5_Case
    /\ payload(data)[7] = 255
    /\ IPv4_flags(payload(data)) = 7
    /\ LastInnerFields[8].value = Dec(31 * 256 + payload(data)[8])

\* Another: a header whose byte 1 is 0xfc (DSCP 63, ECN 0) has been decoded.
C13_WitnessDscp ==
    /\ C5_Case
    /\ payload(data)[2] = 252
    /\ LastInnerFields[3].value = "63"
    /\ LastInnerFields[4].value = "0"

\* C14: for a parsed IPv6 packet version * 2^28 + traffic_class * 2^20 +
\* flow_label is the big-endian 32-bit value of bytes 0-3, traffic_class is
\* in 0..255 (low nibble of byte 0 above the high nibble of byte 1, no bit
\* lost in 8 bits), flow_label is in 0..2^20-1; payload_length is the
\* big-endian value of bytes 4-5, next_header byte 6 and hop_limit byte 7.
C14_IPv6BitFields ==
    \A b \in Buffers :
        IPv6Packet_parse(b).tag = "Ok" =>
            /\ IPv6_version(b) * 268435456 + IPv6_traffic_class(b) * 1048576
                  + IPv6_flow_label(b)
               = b[1] * 16777216 + b[2] * 65536 + b[3] * 256 + b[4]
            /\ IPv6_traffic_class(b) \in 0..255
            /\ IPv6_traffic_class(b) = (b[1] % 16) * 16 + b[2] \div 16
            /\ IPv6_flow_label(b) \in 0..1048575
            /\ IPv6_payload_length(b) = b[5] * 256 + b[6]
            /\ IPv6_next_header(b) = b[7]
            /\ IPv6_hop_limit(b) = b[8]
            /\ (SomeDelivered /\ b = payload(data) /\ Len(data) >= 14
                /\ ether_type(data) = 34525) =>
                  /\ LastInnerFields[2].value
                        = "0x" \o Hex((b[1] % 16) * 16 + b[2] \div 16, 2)
                  /\ LastInnerFields[5].value = Dec(b[7])

\* An IPv6 header starting 0x6f 0xf0 (traffic class 0xff) has been decoded.
C14_Witness ==
    /\ SomeDelivered
    /\ ether_type(data) = 34525
    /\ Len(payload(data)) >= 40
    /\ payload(data)[1] = 111
    /\ payload(data)[2] = 240
    /\ Len(LastFields) = 11
    /\ LastFields[5].value = "0xff"

\* C15: start_capture returns an error only from its setup; every way of
\* leaving its polling loop returns Ok(()); "Packets are not available" and
\* TimeoutExpired neither leave the loop nor change the packet count, which
\* always equals the number of packets delivered so far.
C15_BasicLoopReturns ==
    [][mode' = "basic" =>
        /\ ret' \notin {"none", "Ok"} => (pc = "main" /\ exit_cause' = "setup")
        /\ (pc = "loop" /\ pc' # "loop") => ret' = "Ok"
        /\ pc' = "exited" => ret' # "none"
        /\ (pc = "loop" /\ event' \in {"not_available", "timeout"}) =>
              /\ pc' = "loop"
              /\ count' = count
              /\ delivered' = delivered
        /\ count' = delivered']_vars

\* The basic loop has counted two packets and then met a timeout, and is
\* still polling.
C15_Witness ==
    /\ mode = "basic"
    /\ pc = "loop"
    /\ event = "timeout"
    /\ count = 2
    /\ delivered = 2

\* An analysis that has failed: analyze_packet_security returned an error
\* or panicked.
AnalysisFailed(a) == a \in {"Err", "Panic"}

\* C16 as stated: in AI mode analyze_packet_security is invoked at most once
\* per session, and only for the first delivered packet (the one making
\* count 1); the wait for Enter occurs at most once, only at the start of
\* the iteration following a successful analysis, and never after a failed
\* analysis, after which capture continues without pausing.
C16_Original ==
    [][mode' = "ai" =>
        /\ analyses' <= 1
        /\ analyses' = analyses + 1 =>
              /\ event' = "packet"
              /\ count' = 1
              /\ delivered' = 1
              /\ awaiting' = "send"
        /\ awaiting' # "none" => (analyses' = 1 /\ count' = 1)
        /\ awaiting # "none" =>
              (pauses' = pauses /\ delivered' = delivered /\ count' = count)
        /\ pauses' <= 1
        /\ pauses' = pauses + 1 =>
              /\ analysis = "Ok"
              /\ awaiting = "none"
              /\ first_packet_analyzed
              /\ event = "packet"
              /\ count = 1
        /\ AnalysisFailed(analysis') => (pauses' = 0 /\ ~first_packet_analyzed')
        /\ (awaiting # "none" /\ AnalysisFailed(analysis')) =>
              (pc' = "loop" /\ awaiting' = "none")
        /\ (AnalysisFailed(analysis) /\ pc = "loop"
            /\ delivered' = delivered + 1) =>
              (pc' = "loop" /\ count' = count + 1 /\ analyses' = analyses)]_vars

====
